---- MODULE Spec2Model ----
(***************************************************************************)
(* The Iris dashboard (src/app.py) as a state machine.                     *)
(*                                                                         *)
(* The dashboard is a Streamlit script: every user interaction with a      *)
(* sidebar widget stores the widget's new value in the session and runs    *)
(* the script again from its first line in a fresh namespace.  One run is  *)
(* the sequence  Load, Sidebar, Filter, Metrics, Charts, PairMatrix,       *)
(* DataSummary.  The page holds what the current run has put on it.        *)
(*                                                                         *)
(* Measurements are lengths in centimetres with one decimal; the model     *)
(* keeps them as integers in tenths of a centimetre (5.1 cm is 51).  A     *)
(* float the script computes is kept as an exact fraction of centimetres.  *)
(***************************************************************************)
EXTENDS Integers, Sequences, FiniteSets, TLC

VARIABLES
    iris,               \* what datasets.load_iris() returns: the bundled table
    w_species,          \* session value of the "Select Species" multiselect
    w_x,                \* session value of the "X-Axis Feature" selectbox
    w_y,                \* session value of the "Y-Axis Feature" selectbox
    w_raw,              \* session value of the "Show raw data" checkbox
    numericRange,       \* range-filtering variant only: [field, min, max], else None
    pc,                 \* the position of the running script
    runs,               \* script runs started so far
    loads,              \* executions of datasets.load_iris() so far
    err,                \* the exception that stopped the run, "" when none
    df,                 \* script variable df
    species_options,    \* script variable species_options
    selected_species,   \* script variable selected_species
    x_feature,          \* script variable x_feature
    y_feature,          \* script variable y_feature
    show_raw,           \* script variable show_raw
    filtered,           \* script variable filtered
    pair_df,            \* script variable pair_df
    m1, m2, m3,         \* the three metrics on the page
    figs,               \* the titles and axes of the scatter, histogram and box plot
    desc_table,         \* the "Descriptive Statistics" table on the page
    counts_table,       \* the "Counts by Species" table on the page
    raw_table           \* the "Raw Data" table on the page

widgets == <<w_species, w_x, w_y, w_raw, numericRange>>
locals  == <<df, species_options, selected_species, x_feature, y_feature,
             show_raw, filtered, pair_df>>
page    == <<m1, m2, m3, figs, desc_table, counts_table, raw_table>>
vars    == <<iris, widgets, pc, runs, loads, err, locals, page>>

(***************************************************************************)
(* Bounds of the model.                                                    *)
(***************************************************************************)
\* the longest bundled table the model loads
MaxRows == 2
\* the number of script runs (the first one and one per interaction)
MaxRuns == 3

(***************************************************************************)
(* Python values.                                                          *)
(***************************************************************************)
\* None, and the value of a script variable that is not bound yet
None == <<>>
\* a name that is not bound yet
NoName == ""
\* float('nan')
NaN == [kind |-> "nan"]
\* a finite float, kept as the exact rational num/den
Float(num, den) == [kind |-> "num", num |-> num, den |-> den]

Range(s) == {s[i] : i \in DOMAIN s}

RECURSIVE SumSeq(_)
SumSeq(s) == IF s = <<>> THEN 0 ELSE Head(s) + SumSeq(Tail(s))

\* the position of v in the list s (list.index), 0 when it is absent
IndexOf(s, v) ==
    IF v \in Range(s) THEN CHOOSE i \in DOMAIN s : s[i] = v /\ \A j \in 1..(i - 1) : s[j] # v
    ELSE 0

(***************************************************************************)
(* Strings.  A string the script edits is a sequence of pieces, so that    *)
(* str.replace is computed and not assumed.                                *)
(***************************************************************************)
\* str.replace(old, new) on a string held as pieces
StrReplace(pieces, old, new) ==
    [i \in DOMAIN pieces |-> IF pieces[i] = old THEN new ELSE pieces[i]]

RECURSIVE Join(_)
Join(pieces) == IF pieces = <<>> THEN "" ELSE Head(pieces) \o Join(Tail(pieces))

\* c.replace(' (cm)', '').replace(' ', '_')
CleanName(c) == Join(StrReplace(StrReplace(c, " (cm)", ""), " ", "_"))

(***************************************************************************)
(* The bundled table.  load_iris() returns data (one row of four           *)
(* measurements per flower), target (the species code of each row),        *)
(* feature_names and target_names.                                         *)
(***************************************************************************)
feature_names == << <<"sepal", " ", "length", " (cm)">>,
                    <<"sepal", " ", "width", " (cm)">>,
                    <<"petal", " ", "length", " (cm)">>,
                    <<"petal", " ", "width", " (cm)">> >>

target_names == <<"setosa", "versicolor", "virginica">>

\* rows of the bundled table the model draws from: rows 4, 5, 51 and 101 of
\* the Iris table, each with its species code
SampleRows == { [data |-> <<46, 31, 15, 2>>,  target |-> 0],
                [data |-> <<50, 36, 14, 2>>,  target |-> 0],
                [data |-> <<70, 32, 47, 14>>, target |-> 1],
                [data |-> <<63, 33, 60, 25>>, target |-> 2] }

RECURSIVE SeqsUpTo(_, _)
SeqsUpTo(S, n) ==
    IF n = 0 THEN {<<>>}
    ELSE LET shorter == SeqsUpTo(S, n - 1)
         IN  shorter \cup {Append(s, e) : s \in {t \in shorter : Len(t) = n - 1}, e \in S}

Bundle(rows) ==
    [data          |-> [i \in DOMAIN rows |-> rows[i].data],
     target        |-> [i \in DOMAIN rows |-> rows[i].target],
     feature_names |-> feature_names,
     target_names  |-> target_names]

Bundles == {Bundle(rows) : rows \in SeqsUpTo(SampleRows, MaxRows) \ {<<>>}}

(***************************************************************************)
(* DataFrames.  A frame has column names, row labels (the index) and rows  *)
(* of cells in column order; categories are the categories of its          *)
(* categorical column species.                                             *)
(***************************************************************************)
\* pd.DataFrame(data, columns=names), with the default index 0..n-1
DataFrame(data, names) ==
    [columns    |-> names,
     index      |-> [i \in DOMAIN data |-> i - 1],
     rows       |-> data,
     categories |-> <<>>]

\* pd.Categorical.from_codes(codes, categories): the value of each code
FromCodes(codes, categories) == [i \in DOMAIN codes |-> categories[codes[i] + 1]]

\* frame[name] = values with the categories of a categorical: a new last column
SetColumn(frame, name, values, categories) ==
    [frame EXCEPT !.columns    = Append(@, name),
                  !.rows       = [i \in DOMAIN @ |-> Append(@[i], values[i])],
                  !.categories = categories]

\* frame.columns = names
SetColumns(frame, names) == [frame EXCEPT !.columns = names]

\* frame[name] or frame.name: the cells of one column, in row order
Column(frame, name) ==
    [i \in DOMAIN frame.rows |-> frame.rows[i][IndexOf(frame.columns, name)]]

\* lines 14-17: the frame the script builds from the bundled table
LoadFrame(bundle) ==
    LET f == SetColumn(DataFrame(bundle.data, bundle.feature_names), <<"species">>,
                       FromCodes(bundle.target, bundle.target_names), bundle.target_names)
    IN  SetColumns(f, [i \in DOMAIN f.columns |-> CleanName(f.columns[i])])


(***************************************************************************)
(* Lines 19-28: the feature names.  A dict is the list of its (key, value) *)
(* items in insertion order.                                               *)
(***************************************************************************)
feature_name_map == << <<"sepal_length", "Sepal Length (cm)">>,
                       <<"sepal_width",  "Sepal Width (cm)">>,
                       <<"petal_length", "Petal Length (cm)">>,
                       <<"petal_width",  "Petal Width (cm)">> >>

\* list(d.keys()) and list(d.values())
Keys(d)   == [i \in DOMAIN d |-> d[i][1]]
Values(d) == [i \in DOMAIN d |-> d[i][2]]

\* d[key]; "KeyError" stands for the exception Python raises on a missing key
Lookup(d, key) ==
    IF key \in Range(Keys(d)) THEN d[IndexOf(Keys(d), key)][2] ELSE "KeyError"

\* list(feature_name_map.values())
readable_features == Values(feature_name_map)

\* an inverse that gives every readable name the first original name
readable_to_original_first == [i \in DOMAIN feature_name_map |->
                                  <<feature_name_map[i][2], feature_name_map[1][1]>>]

\* {v: k for k, v in feature_name_map.items()}
readable_to_original == [i \in DOMAIN feature_name_map |->
                            <<feature_name_map[i][2], feature_name_map[i][1]>>]

(***************************************************************************)
(* Widgets.  The session holds <<v>> for a widget the user has set to v    *)
(* and None for one never touched, which then returns its default.         *)
(***************************************************************************)
WidgetValue(w, default) == IF w = None THEN default ELSE w[1]

\* the selectbox default index=0 and index=2 (Python counts from 0)
XDefaultIndex == 0
YDefaultIndex == 2

(***************************************************************************)
(* Line 90: filtered = df[df['species'].isin(selected_species)]            *)
(***************************************************************************)
\* a mask that compares with the first selected species only
isin_first(values, selection) ==
    [i \in DOMAIN values |-> selection # <<>> /\ values[i] = selection[1]]

\* Series.isin(list): per row, whether the cell is an element of the list
isin(values, selection) == [i \in DOMAIN values |-> values[i] \in Range(selection)]

\* the positions a mask keeps, ascending
Kept(mask) == SelectSeq([i \in DOMAIN mask |-> i], LAMBDA i : mask[i])

\* a selection that returns the kept rows last to first
BooleanIndexReversed(frame, mask) ==
    LET keep == Kept(mask)
        n    == Len(keep)
    IN  [frame EXCEPT !.index = [k \in 1..n |-> frame.index[keep[n + 1 - k]]],
                      !.rows  = [k \in 1..n |-> frame.rows[keep[n + 1 - k]]]]

\* frame[mask]: a new frame of the rows whose mask is True, in frame order,
\* each with the label it has in frame; columns and categories are kept
BooleanIndex(frame, mask) ==
    LET keep == Kept(mask)
    IN  [frame EXCEPT !.index = [k \in DOMAIN keep |-> frame.index[keep[k]]],
                      !.rows  = [k \in DOMAIN keep |-> frame.rows[keep[k]]]]

(***************************************************************************)
(* Lines 96-99: the metrics.                                               *)
(***************************************************************************)
\* a mean that is None for no values
MeanNoneWhenEmpty(values) ==
    IF Len(values) = 0 THEN None ELSE Float(SumSeq(values), 10 * Len(values))

\* Series.mean(): NaN for no values, else sum / count (values are tenths of a cm)
Mean(values) ==
    IF Len(values) = 0 THEN NaN ELSE Float(SumSeq(values), 10 * Len(values))

\* num/den (both >= 0, den > 0) rounded to the nearest integer, a half to even
RoundHalfEven(num, den) ==
    LET q == num \div den
        r == num % den
    IN  IF 2 * r < den THEN q
        ELSE IF 2 * r > den THEN q + 1
        ELSE IF q % 2 = 0 THEN q ELSE q + 1

\* f"{v:.2f}": "nan" for NaN, the value to two decimals (in hundredths) for a
\* float; "TypeError" stands for the exception any other value raises
Format2f(v) ==
    IF v = NaN THEN [text |-> "nan"]
    ELSE IF v # None /\ v.kind = "num" THEN [hundredths |-> RoundHalfEven(100 * v.num, v.den)]
    ELSE [text |-> "TypeError"]

Raised(formatted) == formatted = [text |-> "TypeError"]

\* st.metric(label, value)
Metric(label, value) == [label |-> label, value |-> value]

\* f"{...:.2f} cm"
WithUnit(formatted) == [number |-> formatted, unit |-> " cm"]


(***************************************************************************)
(* Lines 159-162: the renamed copy for the pairwise scatter matrix.        *)
(***************************************************************************)
\* frame.copy(): a new frame with the same content
Copy(frame) == frame

\* frame.rename(columns=d): a new frame; a column that is a key of d gets d's
\* value as its name, every other column keeps its name
Rename(frame, d) ==
    [frame EXCEPT !.columns =
        [i \in DOMAIN @ |-> IF @[i] \in Range(Keys(d)) THEN Lookup(d, @[i]) ELSE @[i]]]

(***************************************************************************)
(* Lines 177-185: the data summary.                                        *)
(***************************************************************************)
\* the numeric columns of a frame: describe() leaves the categorical one out
NumericColumns(frame) == SelectSeq(frame.columns, LAMBDA c : c # "species")

\* the values in ascending order
Sorted(values) == SortSeq(values, LAMBDA a, b : a < b)

\* a quantile that takes the lower of the two closest ranks
QuantileLower(values, k) ==
    LET s == Sorted(values)
    IN  IF Len(s) = 0 THEN NaN ELSE Float(s[((k * (Len(s) - 1)) \div 4) + 1], 10)

\* Series.quantile(k/4) with pandas' default linear interpolation: the rank is
\* r = (k/4) * (n-1) counted from 0, the result s[floor r] + frac(r) * (s[ceil r]
\* - s[floor r]); NaN for no values.  Values are tenths, so the result is a
\* number of fortieths of a tenth.
Quantile(values, k) ==
    LET s    == Sorted(values)
        n    == Len(s)
        pos  == k * (n - 1)
        lo   == pos \div 4
        frac == pos % 4
        hi   == IF frac = 0 THEN lo ELSE lo + 1
    IN  IF n = 0 THEN NaN
        ELSE Float(4 * s[lo + 1] + frac * (s[hi + 1] - s[lo + 1]), 40)

Least(values)    == IF Len(values) = 0 THEN NaN ELSE Float(Sorted(values)[1], 10)
Greatest(values) == IF Len(values) = 0 THEN NaN ELSE Float(Sorted(values)[Len(values)], 10)

\* Series.std(): the sample standard deviation, NaN for fewer than two values.
\* A square root has no exact fraction: the model keeps the variance
\* (n * sum(x^2) - sum(x)^2) / (n * (n-1)), in squared tenths, under a root sign.
Std(values) ==
    LET n == Len(values)
    IN  IF n <= 1 THEN NaN
        ELSE [kind |-> "sqrt",
              num  |-> n * SumSeq([i \in DOMAIN values |-> values[i] * values[i]])
                         - SumSeq(values) * SumSeq(values),
              den  |-> 100 * n * (n - 1)]

\* Series.describe(): the eight statistics of one numeric column
DescribeColumn(values) ==
    [count |-> Float(Len(values), 1),
     mean  |-> Mean(values),
     std   |-> Std(values),
     min   |-> Least(values),
     q25   |-> Quantile(values, 1),
     q50   |-> Quantile(values, 2),
     q75   |-> Quantile(values, 3),
     max   |-> Greatest(values)]

\* DataFrame.describe(): one column of statistics per numeric column
Describe(frame) ==
    LET cols == NumericColumns(frame)
    IN  [columns |-> cols,
         stats   |-> [i \in DOMAIN cols |-> DescribeColumn(Column(frame, cols[i]))]]

\* round(2) of one cell: a float becomes the nearest number of hundredths (a
\* half goes to the even one), NaN stays NaN; the root stays under its sign
Round2(v) ==
    IF v.kind = "num" THEN Float(RoundHalfEven(100 * v.num, v.den), 100) ELSE v

\* DataFrame.round(2)
RoundTable(table) ==
    [table EXCEPT !.stats =
        [i \in DOMAIN @ |-> [name \in DOMAIN @[i] |-> Round2(@[i][name])]]]

\* counts of the values that occur only
ValueCountsObserved(values, categories) ==
    {<<c, Cardinality({i \in DOMAIN values : values[i] = c})>> : c \in Range(values)}

\* Series.value_counts() of a categorical column: one (value, count) entry per
\* category, 0 for a category without rows.  pandas lists the entries by
\* falling count and does not fix the order of equal counts; the model keeps
\* the entries as a set.
ValueCounts(values, categories) ==
    {<<c, Cardinality({i \in DOMAIN values : values[i] = c})>> : c \in Range(categories)}

\* .rename_axis("Species").reset_index(name="Count"): the table st.table gets
CountsTable(counts) == [columns |-> <<"Species", "Count">>, rows |-> counts]

\* frame.reset_index(drop=True): a new frame labelled 0..n-1
ResetIndex(frame) == [frame EXCEPT !.index = [i \in DOMAIN @ |-> i - 1]]


(***************************************************************************)
(* The script, one action per block of src/app.py.                         *)
(***************************************************************************)
UnboundLocals ==
    /\ df = None /\ species_options = None /\ selected_species = None
    /\ x_feature = NoName /\ y_feature = NoName /\ show_raw = FALSE
    /\ filtered = None /\ pair_df = None

EmptyPage ==
    /\ m1 = None /\ m2 = None /\ m3 = None /\ figs = None
    /\ desc_table = None /\ counts_table = None /\ raw_table = None

\* a session in which no widget has been touched yet
FreshSession ==
    /\ w_species = None /\ w_x = None /\ w_y = None /\ w_raw = None

Started ==
    /\ pc = "start" /\ runs = 1 /\ loads = 0 /\ err = ""
    /\ UnboundLocals /\ EmptyPage

Init ==
    /\ iris \in Bundles
    /\ FreshSession
    /\ numericRange = None
    /\ Started

\* a loader that hands out the table last row first from the second call on
load_iris_unstable == IF loads = 0 THEN iris
                      ELSE [iris EXCEPT !.data   = [i \in DOMAIN @ |-> @[Len(@) + 1 - i]],
                                        !.target = [i \in DOMAIN @ |-> @[Len(@) + 1 - i]]]

\* datasets.load_iris(): the bundled table
load_iris == iris

\* lines 13-17: the run loads the table and builds df
Load ==
    /\ pc = "start"
    /\ df' = LoadFrame(load_iris)
    /\ loads' = loads + 1
    /\ pc' = "sidebar"
    /\ UNCHANGED <<iris, widgets, runs, err, species_options, selected_species,
                   x_feature, y_feature, show_raw, filtered, pair_df, page>>

\* lines 74-88: the sidebar hands the widgets' values to the script.  A name
\* that readable_to_original does not hold stops the run with a KeyError.
Sidebar ==
    /\ pc = "sidebar"
    /\ LET options == df.categories
           x == Lookup(readable_to_original,
                       WidgetValue(w_x, readable_features[XDefaultIndex + 1]))
           y == Lookup(readable_to_original,
                       WidgetValue(w_y, readable_features[YDefaultIndex + 1]))
       IN  /\ species_options' = options
           /\ selected_species' = WidgetValue(w_species, options)
           /\ IF x = "KeyError"
              THEN /\ err' = "KeyError" /\ pc' = "error"
                   /\ UNCHANGED <<x_feature, y_feature, show_raw>>
              ELSE IF y = "KeyError"
              THEN /\ x_feature' = x
                   /\ err' = "KeyError" /\ pc' = "error"
                   /\ UNCHANGED <<y_feature, show_raw>>
              ELSE /\ x_feature' = x
                   /\ y_feature' = y
                   /\ show_raw' = WidgetValue(w_raw, FALSE)
                   /\ pc' = "filter"
                   /\ UNCHANGED err
    /\ UNCHANGED <<iris, widgets, runs, loads, df, filtered, pair_df, page>>

\* line 90: the rows of df whose species is selected
Filter ==
    /\ pc = "filter"
    /\ filtered' = BooleanIndex(df, isin(Column(df, "species"), selected_species))
    /\ pc' = "metrics"
    /\ UNCHANGED <<iris, widgets, runs, loads, err, df, species_options,
                   selected_species, x_feature, y_feature, show_raw, pair_df, page>>

\* len(frame): the number of rows
len(frame) == Len(frame.rows)

\* lines 96-99: the three metrics.  A mean that f"{...:.2f}" cannot format
\* stops the run with a TypeError, after the metrics before it are shown.
Metrics ==
    /\ pc = "metrics"
    /\ m1' = Metric("Filtered Rows", len(filtered))
    /\ LET sepal == Format2f(Mean(Column(filtered, "sepal_length")))
           petal == Format2f(Mean(Column(filtered, "petal_length")))
       IN  IF Raised(sepal)
           THEN /\ err' = "TypeError" /\ pc' = "error"
                /\ UNCHANGED <<m2, m3>>
           ELSE IF Raised(petal)
           THEN /\ m2' = Metric("Average Sepal Length", WithUnit(sepal))
                /\ err' = "TypeError" /\ pc' = "error"
                /\ UNCHANGED m3
           ELSE /\ m2' = Metric("Average Sepal Length", WithUnit(sepal))
                /\ m3' = Metric("Average Petal Length", WithUnit(petal))
                /\ pc' = "charts"
                /\ UNCHANGED err
    /\ UNCHANGED <<iris, widgets, runs, loads, locals,
                   figs, desc_table, counts_table, raw_table>>

\* lines 103-156: the scatter plot, the histogram and the box plot of filtered.
\* The charting library draws them from filtered, empty or not, and changes
\* no script variable.
Charts ==
    /\ pc = "charts"
    /\ figs' = [scatter |-> [x |-> x_feature, y |-> y_feature,
                             title |-> Lookup(feature_name_map, x_feature) \o " vs "
                                       \o Lookup(feature_name_map, y_feature)],
                hist    |-> [x |-> x_feature,
                             title |-> "Distribution of "
                                       \o Lookup(feature_name_map, x_feature)
                                       \o " by Species"],
                box     |-> [x |-> "species", y |-> x_feature,
                             title |-> Lookup(feature_name_map, x_feature)
                                       \o " by Species (Box Plot)"]]
    /\ pc' = "pair"
    /\ UNCHANGED <<iris, widgets, runs, loads, err, locals,
                   m1, m2, m3, desc_table, counts_table, raw_table>>

\* lines 158-174: the renamed copy the scatter matrix is drawn from
PairMatrix ==
    /\ pc = "pair"
    /\ pair_df' = Rename(Copy(filtered), feature_name_map)
    /\ pc' = "summary"
    /\ UNCHANGED <<iris, widgets, runs, loads, err, df, species_options,
                   selected_species, x_feature, y_feature, show_raw, filtered, page>>

\* lines 176-185: the statistics, the counts and, when asked for, the raw rows
DataSummary ==
    /\ pc = "summary"
    /\ desc_table' = RoundTable(Describe(filtered))
    /\ counts_table' = CountsTable(ValueCounts(Column(filtered, "species"),
                                               filtered.categories))
    /\ raw_table' = IF show_raw THEN ResetIndex(filtered) ELSE None
    /\ pc' = "done"
    /\ UNCHANGED <<iris, widgets, runs, loads, err, locals, m1, m2, m3, figs>>

(***************************************************************************)
(* User interactions.  Streamlit stores the widget's new value and runs    *)
(* the script again from line 1: the variables of the last run are gone    *)
(* and the page is drawn anew.                                             *)
(***************************************************************************)
\* the script has ended, normally or with an exception, and the widgets wait
\* for the user
Idle == pc \in {"done", "error"} /\ runs < MaxRuns

Rerun ==
    /\ pc' = "start"
    /\ runs' = runs + 1
    /\ err' = ""
    /\ df' = None /\ species_options' = None /\ selected_species' = None
    /\ x_feature' = NoName /\ y_feature' = NoName /\ show_raw' = FALSE
    /\ filtered' = None /\ pair_df' = None
    /\ m1' = None /\ m2' = None /\ m3' = None /\ figs' = None
    /\ desc_table' = None /\ counts_table' = None /\ raw_table' = None
    /\ UNCHANGED <<iris, loads>>

CurrentSpecies == WidgetValue(w_species, species_options)

\* the user adds a species to the multiselect: it goes to the end of the list
SelectSpecies ==
    /\ Idle
    /\ \E s \in Range(species_options) \ Range(CurrentSpecies) :
          w_species' = <<Append(CurrentSpecies, s)>>
    /\ Rerun
    /\ UNCHANGED <<w_x, w_y, w_raw, numericRange>>

\* the user removes one species from the multiselect
DeselectSpecies ==
    /\ Idle
    /\ \E s \in Range(CurrentSpecies) :
          w_species' = <<SelectSeq(CurrentSpecies, LAMBDA t : t # s)>>
    /\ Rerun
    /\ UNCHANGED <<w_x, w_y, w_raw, numericRange>>

\* the user clears the multiselect
ClearSpecies ==
    /\ Idle
    /\ CurrentSpecies # <<>>
    /\ w_species' = << <<>> >>
    /\ Rerun
    /\ UNCHANGED <<w_x, w_y, w_raw, numericRange>>

\* the user picks another X-axis feature
SelectX ==
    /\ Idle
    /\ \E r \in Range(readable_features) :
          /\ r # WidgetValue(w_x, readable_features[XDefaultIndex + 1])
          /\ w_x' = <<r>>
    /\ Rerun
    /\ UNCHANGED <<w_species, w_y, w_raw, numericRange>>

\* the user picks another Y-axis feature
SelectY ==
    /\ Idle
    /\ \E r \in Range(readable_features) :
          /\ r # WidgetValue(w_y, readable_features[YDefaultIndex + 1])
          /\ w_y' = <<r>>
    /\ Rerun
    /\ UNCHANGED <<w_species, w_x, w_raw, numericRange>>

\* the user ticks or unticks "Show raw data"
ToggleRaw ==
    /\ Idle
    /\ w_raw' = <<~WidgetValue(w_raw, FALSE)>>
    /\ Rerun
    /\ UNCHANGED <<w_species, w_x, w_y, numericRange>>

Next ==
    \/ Load
    \/ Sidebar
    \/ Filter
    \/ Metrics
    \/ Charts
    \/ PairMatrix
    \/ DataSummary
    \/ SelectSpecies
    \/ DeselectSpecies
    \/ ClearSpecies
    \/ SelectX
    \/ SelectY
    \/ ToggleRaw

Spec == Init /\ [][Next]_vars


\* one step of the running script
Script == Load \/ Sidebar \/ Filter \/ Metrics \/ Charts \/ PairMatrix \/ DataSummary

(***************************************************************************)
(* The pipeline called with arbitrary arguments: the species list and the  *)
(* feature names are drawn from sets that also hold names the dataset      *)
(* does not know.                                                          *)
(***************************************************************************)
CallSpecies  == {"setosa", "virginica", "unknown"}
CallFeatures == {"Petal Width (cm)", "Unknown (cm)"}

\* the lists without repetition of at most two of the names
CallSelections ==
    {sel \in SeqsUpTo(CallSpecies, 2) : \A i, j \in DOMAIN sel : sel[i] = sel[j] => i = j}

InitCall ==
    /\ iris \in Bundles
    /\ w_species \in {<<sel>> : sel \in CallSelections}
    /\ w_x \in {None} \cup {<<f>> : f \in CallFeatures}
    /\ w_y \in {None} \cup {<<f>> : f \in CallFeatures}
    /\ w_raw = None
    /\ numericRange = None
    /\ Started

SpecCall == InitCall /\ [][Next]_vars

(***************************************************************************)
(* The range-filtering variant of the dashboard.  Its script is not among  *)
(* the sources; the range constraint is modelled from the specification:   *)
(* a slider holds an inclusive [min, max] over one designated field, and a *)
(* row passes when its species is selected and its value lies in range.    *)
(***************************************************************************)
RangeField  == "sepal_length"
RangeBounds == {46, 50, 70}

Ranges == {r \in [field : {RangeField}, min : RangeBounds, max : RangeBounds] :
              r.min <= r.max}

\* a range test that leaves out both bounds
between_exclusive(values, lo, hi) ==
    [i \in DOMAIN values |-> lo < values[i] /\ values[i] < hi]

\* per row, whether lo <= value <= hi
between(values, lo, hi) == [i \in DOMAIN values |-> lo <= values[i] /\ values[i] <= hi]

\* mask & mask
MaskAnd(a, b) == [i \in DOMAIN a |-> a[i] /\ b[i]]

InitRange ==
    /\ iris \in Bundles
    /\ FreshSession
    /\ numericRange \in Ranges
    /\ Started

\* the rows of df whose species is selected and whose field lies in the range
RangeFilter ==
    /\ pc = "filter"
    /\ filtered' = BooleanIndex(df,
                      MaskAnd(isin(Column(df, "species"), selected_species),
                              between(Column(df, numericRange.field),
                                      numericRange.min, numericRange.max)))
    /\ pc' = "metrics"
    /\ UNCHANGED <<iris, widgets, runs, loads, err, df, species_options,
                   selected_species, x_feature, y_feature, show_raw, pair_df, page>>

\* the user moves the range slider
SetRange ==
    /\ Idle
    /\ numericRange' \in Ranges \ {numericRange}
    /\ Rerun
    /\ UNCHANGED <<w_species, w_x, w_y, w_raw>>

NextRange ==
    \/ Load
    \/ Sidebar
    \/ RangeFilter
    \/ Metrics
    \/ Charts
    \/ PairMatrix
    \/ DataSummary
    \/ SelectSpecies
    \/ DeselectSpecies
    \/ ClearSpecies
    \/ SetRange

SpecRange == InitRange /\ [][NextRange]_vars


(***************************************************************************)
(* Properties.                                                             *)
(***************************************************************************)
\* the fixed three species and the four measurement fields
SpeciesSet == {"setosa", "versicolor", "virginica"}
FieldSet   == {"sepal_length", "sepal_width", "petal_length", "petal_width"}

\* the cell of row i of a frame in the column called name
Cell(frame, i, name) ==
    frame.rows[i][CHOOSE j \in DOMAIN frame.columns : frame.columns[j] = name]

\* the current constraint: the species the multiselect holds, as a set
CurrentSelection == Range(WidgetValue(w_species, target_names))

\* C1: the filtered view is exactly the subsequence of the dataset made of the
\* records whose species is selected: a record is kept if and only if its
\* species is selected, kept records keep their relative order, none is
\* duplicated, and the statement does not depend on the X/Y features.
C1_FilterIsStableSubsequence ==
    filtered # None =>
        /\ filtered.columns = df.columns
        /\ \A k \in DOMAIN filtered.rows :
              \E i \in DOMAIN df.rows :
                 /\ df.index[i] = filtered.index[k]
                 /\ df.rows[i] = filtered.rows[k]
        /\ \A k, l \in DOMAIN filtered.index :
              k < l => filtered.index[k] < filtered.index[l]
        /\ \A i \in DOMAIN df.rows :
              (Cell(df, i, "species") \in Range(selected_species))
                 <=> (df.index[i] \in Range(filtered.index))

\* a run that has filtered with another feature pair than the default one and
\* has kept some rows and dropped others
C1_Witness ==
    /\ pc = "done"
    /\ x_feature # "sepal_length"
    /\ Len(filtered.rows) > 0
    /\ Len(filtered.rows) < Len(df.rows)

\* C2: with no species selected the view has no rows and the row count is 0,
\* no step fails, and until the run is done its next step can always be
\* taken, so that it ends with the metrics, the statistics and the counts
\* on the page.
C2_EmptySelectionRunsToTheEnd ==
    (species_options # None /\ selected_species = <<>>) =>
        /\ pc # "error" /\ err = ""
        /\ (filtered # None => filtered.rows = <<>>)
        /\ (m1 # None => m1.value = 0)
        /\ (pc # "done" => ENABLED Script)
        /\ (pc = "done" => m3 # None /\ desc_table # None /\ counts_table # None)

\* a finished run with no species selected
C2_Witness ==
    /\ pc = "done"
    /\ selected_species = <<>>
    /\ m1 = Metric("Filtered Rows", 0)
    /\ desc_table # None
    /\ counts_table # None

\* the count the "Counts by Species" table gives for a species
CountShown(s) == CHOOSE c \in 0..Len(df.rows) : <<s, c>> \in counts_table.rows

\* C3: the counts by species have exactly one entry for each of the three
\* species, the entry of a species is the number of its rows in the view (0
\* when it has none), and the counts sum to the "Filtered Rows" metric.
C3_CountsCoverEverySpecies ==
    counts_table # None =>
        /\ {e[1] : e \in counts_table.rows} = SpeciesSet
        /\ Cardinality(counts_table.rows) = Cardinality(SpeciesSet)
        /\ \A e \in counts_table.rows :
              e[2] = Cardinality({i \in DOMAIN filtered.rows :
                                     Cell(filtered, i, "species") = e[1]})
        /\ CountShown("setosa") + CountShown("versicolor") + CountShown("virginica")
              = m1.value

\* a finished run whose view has rows and lacks a species the dataset has
C3_Witness ==
    /\ pc = "done"
    /\ m1.value > 0
    /\ \E i \in DOMAIN df.rows : CountShown(Cell(df, i, "species")) = 0

\* C4: when the view has no rows, the two averages shown are marked undefined:
\* neither 0.00 nor a NaN passed through the number format.
C4_EmptyMeansMarkedUndefined ==
    (m3 # None /\ m1.value = 0) =>
        /\ m2.value.number \notin {[text |-> "nan"], [hundredths |-> 0]}
        /\ m3.value.number \notin {[text |-> "nan"], [hundredths |-> 0]}

\* whether the call names a species or a feature the dataset does not know
NamesUnknown ==
    \/ Range(WidgetValue(w_species, target_names)) \ SpeciesSet # {}
    \/ WidgetValue(w_x, readable_features[XDefaultIndex + 1]) \notin Range(readable_features)
    \/ WidgetValue(w_y, readable_features[YDefaultIndex + 1]) \notin Range(readable_features)

C6_RangeIsInclusive ==
    (filtered # None /\ numericRange # None) =>
        /\ \A i \in DOMAIN df.rows :
              (df.index[i] \in Range(filtered.index))
                 <=> /\ Cell(df, i, "species") \in Range(selected_species)
                     /\ numericRange.min <= Cell(df, i, numericRange.field)
                     /\ Cell(df, i, numericRange.field) <= numericRange.max
        /\ ( /\ Column(df, "sepal_length") = <<50, 70>>
             /\ Column(df, "species") = <<"setosa", "versicolor">>
             /\ Range(selected_species) = SpeciesSet
             /\ numericRange = [field |-> "sepal_length", min |-> 50, max |-> 50] )
           => (filtered.index = <<0>> /\ filtered.rows = <<df.rows[1]>>)

\* the two-record example, filtered with the range [5.0, 5.0]
C6_Witness ==
    /\ filtered # None
    /\ Column(df, "sepal_length") = <<50, 70>>
    /\ Column(df, "species") = <<"setosa", "versicolor">>
    /\ Range(selected_species) = SpeciesSet
    /\ numericRange = [field |-> "sepal_length", min |-> 50, max |-> 50]
    /\ Len(filtered.rows) = 1

\* C7: the feature pair is always two distinct known fields.
C7_FeaturePairDistinct ==
    (x_feature # NoName /\ y_feature # NoName) =>
        /\ x_feature \in FieldSet
        /\ y_feature \in FieldSet
        /\ x_feature # y_feature

\* C7 as amended: each of the two features is a known field, and the pair is
\* sepal_length, petal_length for as long as no selectbox has been touched.
C7_FeaturesKnownDefaultsDistinct ==
    /\ (x_feature # NoName => x_feature \in FieldSet)
    /\ (y_feature # NoName => y_feature \in FieldSet)
    /\ pc \in {"filter", "metrics", "charts", "pair", "summary", "done"}
          => (x_feature # NoName /\ y_feature # NoName)
    /\ (w_x = None /\ w_y = None /\ y_feature # NoName)
          => (x_feature = "sepal_length" /\ y_feature = "petal_length")

\* a finished run that has plotted a feature against itself
C7_Witness ==
    /\ pc = "done"
    /\ x_feature = y_feature
    /\ figs.scatter.x = figs.scatter.y


\* the value of rank j (counted from 0) among the values in ascending order
OrderStat(values, j) ==
    CHOOSE v \in Range(values) :
        /\ Cardinality({i \in DOMAIN values : values[i] < v}) <= j
        /\ j < Cardinality({i \in DOMAIN values : values[i] <= v})

\* the linear interpolation of the claim for p = k/4, in fortieths of a tenth
\* of a centimetre: r = p * (n-1), values[floor r] + frac(r) * (values[ceil r]
\* - values[floor r])
Interpolated(values, k) ==
    LET pos  == k * (Len(values) - 1)
        low  == OrderStat(values, pos \div 4)
        high == OrderStat(values, (pos + 3) \div 4)
    IN  4 * low + (pos % 4) * (high - low)

\* the quartile k/4 the statistics table shows for column number c
QuartileShown(c, k) ==
    IF k = 1 THEN desc_table.stats[c].q25
    ELSE IF k = 2 THEN desc_table.stats[c].q50 ELSE desc_table.stats[c].q75

\* C8: every quartile the statistics table shows equals the linear
\* interpolation at rank p * (n-1) of the sorted field values.
C8_QuartilesExact ==
    (desc_table # None /\ Len(filtered.rows) >= 1) =>
        \A c \in DOMAIN desc_table.columns : \A k \in 1..3 :
            LET shown == QuartileShown(c, k)
                exact == Interpolated(Column(filtered, desc_table.columns[c]), k)
            IN  shown.kind = "num" /\ shown.num * 40 = exact * shown.den

\* C8 as amended: every quartile shown is that interpolation rounded to two
\* decimals (it is a whole number of hundredths at most 0.005 away from it);
\* for one record the three quartiles equal its value, and the median of
\* 1, 2, 3, 4 is 2.5.
C8_QuartilesRounded ==
    /\ (desc_table # None /\ Len(filtered.rows) >= 1) =>
          \A c \in DOMAIN desc_table.columns : \A k \in 1..3 :
              LET shown == QuartileShown(c, k)
                  exact == Interpolated(Column(filtered, desc_table.columns[c]), k)
                  diff  == shown.num * 40 - exact * shown.den
              IN  /\ shown.kind = "num" /\ shown.den = 100
                  /\ 200 * diff <= 40 * shown.den
                  /\ 200 * (0 - diff) <= 40 * shown.den
                  /\ Len(filtered.rows) = 1 =>
                        shown.num = 10 * Cell(filtered, 1, desc_table.columns[c])
    /\ Round2(Quantile(<<10, 20, 30, 40>>, 2)) = Float(250, 100)

\* a finished run whose table shows a quartile that the rounding has moved
C8_Witness ==
    /\ pc = "done"
    /\ Len(filtered.rows) >= 2
    /\ \E c \in DOMAIN desc_table.columns : \E k \in 1..3 :
          QuartileShown(c, k).num * 40
             # Interpolated(Column(filtered, desc_table.columns[c]), k)
                  * QuartileShown(c, k).den

DatasetAsBundled ==
    /\ df.columns = <<"sepal_length", "sepal_width", "petal_length", "petal_width",
                      "species">>
    /\ df.index = [i \in DOMAIN iris.data |-> i - 1]
    /\ df.rows = [i \in DOMAIN iris.data |->
                     Append(iris.data[i], target_names[iris.target[i] + 1])]
    /\ df.categories = target_names

Asked(S) == {i \in DOMAIN iris.data : target_names[iris.target[i] + 1] \in S}

\* the two-decimal text of the mean of measurement number f over the rows R
MeanAsked(R, f) ==
    IF R = {} THEN [text |-> "nan"]
    ELSE [hundredths |->
            RoundHalfEven(10 * SumSeq([i \in DOMAIN iris.data |->
                                          IF i \in R THEN iris.data[i][f] ELSE 0]),
                          Cardinality(R))]

\* C10: what a finished run shows is what filtering the whole dataset with the
\* current set of selected species gives, whatever was selected before and in
\* whatever order the set was put together: the view, the row count, the two
\* means and the counts by species are functions of that set.
C10_ViewDependsOnCurrentSelectionOnly ==
    pc = "done" =>
        LET R == Asked(CurrentSelection)
        IN  /\ Range(filtered.index) = {i - 1 : i \in R}
            /\ \A k \in DOMAIN filtered.rows :
                  filtered.rows[k] = df.rows[filtered.index[k] + 1]
            /\ m1.value = Cardinality(R)
            /\ m2.value.number = MeanAsked(R, 1)
            /\ m3.value.number = MeanAsked(R, 3)
            /\ \A e \in counts_table.rows :
                  e[2] = Cardinality(Asked({e[1]} \cap CurrentSelection))

\* a finished run whose selection is the full set again, put together in
\* another order by removing a species and adding it back
C10_Witness ==
    /\ pc = "done"
    /\ runs >= 3
    /\ selected_species # species_options
    /\ Range(selected_species) = Range(species_options)
    /\ m1.value >= 2

====
